---- MODULE Spec2Model ----
(***************************************************************************)
(* Model of js/calculations.js and js/data.js of how-much-did-it-cost-me:  *)
(* the tax calculator (calculateIncomeTax, calculateFICA) and the share    *)
(* allocator (calculateShare) over the static FY 2024 tables, and of       *)
(* js/app.js and js/storage.js: the page's state, its handlers, and the    *)
(* record kept in localStorage (variables state, localStorage, document).  *)
(*                                                                         *)
(* Numbers.  A JavaScript number is modelled as a pair <<n, d>>: the exact *)
(* rational n/d in lowest terms with d > 0, or one of the three special    *)
(* values Infinity = <<1, 0>>, -Infinity = <<-1, 0>>, NaN = <<0, 0>>.      *)
(* The arithmetic is exact: the rounding of binary floating point and the  *)
(* sign of zero are not modelled.                                          *)
(*                                                                         *)
(* Units.  Incomes, taxes and shares are in dollars.  The budget-scale     *)
(* amounts (FEDERAL_BUDGET, budgetPool, revenuePool, spendingAmount) are   *)
(* in billions of dollars, since TLC's integers are 32 bits wide;          *)
(* calculateShare uses them only in tax / pool * spendingAmount and in     *)
(* spendingAmount > budgetPool, so yourShare is in dollars and             *)
(* breakdown.proportion is the code's proportion times 10^9.               *)
(***************************************************************************)
EXTENDS Integers, Sequences, FiniteSets, TLC

VARIABLES call, tables, state, localStorage, document

vars == <<call, tables, state, localStorage, document>>

(***************************************************************************)
(* JavaScript numbers                                                      *)
(***************************************************************************)
Abs(x) == IF x < 0 THEN -x ELSE x

Sgn(x) == IF x > 0 THEN 1 ELSE IF x < 0 THEN -1 ELSE 0

RECURSIVE GCD(_, _)
GCD(a, b) == IF b = 0 THEN a ELSE GCD(b, a % b)

\* n/d in lowest terms, d > 0
Frac(n, d) ==
  LET g == GCD(Abs(n), Abs(d))
  IN  <<Sgn(d) * (n \div g), Abs(d) \div g>>

Num(n) == <<n, 1>>

Infinity == <<1, 0>>

NaN == <<0, 0>>

IsNaN(a) == a[1] = 0 /\ a[2] = 0

\* a * b
Mul(a, b) ==
  IF a[2] = 0 \/ b[2] = 0
  THEN <<Sgn(a[1]) * Sgn(b[1]), 0>>
  ELSE IF a[1] = 0 \/ b[1] = 0
  THEN <<0, 1>>
  ELSE LET g1 == GCD(Abs(a[1]), b[2])
           g2 == GCD(Abs(b[1]), a[2])
       IN  <<(a[1] \div g1) * (b[1] \div g2), (a[2] \div g2) * (b[2] \div g1)>>

\* 1 / a
Recip(a) ==
  IF a[1] > 0 THEN <<a[2], a[1]>>
  ELSE IF a[1] < 0 THEN <<-a[2], -a[1]>>
  ELSE IF a[2] = 0 THEN NaN ELSE Infinity

\* a / b
Div(a, b) == Mul(a, Recip(b))

\* a + b
Add(a, b) ==
  IF a[2] = 0 /\ b[2] = 0 THEN (IF a[1] = b[1] THEN a ELSE NaN)
  ELSE IF a[2] = 0 THEN a
  ELSE IF b[2] = 0 THEN b
  ELSE LET g == GCD(a[2], b[2])
       IN  Frac(a[1] * (b[2] \div g) + b[1] * (a[2] \div g), (a[2] \div g) * b[2])

Neg(a) == <<-a[1], a[2]>>

\* a - b
Sub(a, b) == Add(a, Neg(b))

\* a < b (the whole parts first, then the fractional parts)
Lt(a, b) ==
  /\ ~IsNaN(a)
  /\ ~IsNaN(b)
  /\ IF a[2] = 0 /\ b[2] = 0 THEN a[1] < b[1]
     ELSE IF a[2] = 0 THEN a[1] < 0
     ELSE IF b[2] = 0 THEN b[1] > 0
     ELSE IF a[1] \div a[2] # b[1] \div b[2] THEN a[1] \div a[2] < b[1] \div b[2]
     ELSE LET g == GCD(a[2], b[2])
          IN  (a[1] % a[2]) * (b[2] \div g) < (b[1] % b[2]) * (a[2] \div g)

\* a > b
Gt(a, b) == Lt(b, a)

\* a <= b
Le(a, b) == ~IsNaN(a) /\ ~IsNaN(b) /\ ~Lt(b, a)

\* a === b
Eq(a, b) == ~IsNaN(a) /\ a = b

MathMax(a, b) == IF IsNaN(a) \/ IsNaN(b) THEN NaN ELSE IF Lt(a, b) THEN b ELSE a

MathMin(a, b) == IF IsNaN(a) \/ IsNaN(b) THEN NaN ELSE IF Lt(b, a) THEN b ELSE a

\* Math.round(a): the nearest integer, halves upwards
MathRound(a) ==
  IF a[2] = 0 THEN a
  ELSE LET whole == a[1] \div a[2]
           rest == a[1] % a[2]
       IN  Num(IF rest >= a[2] - rest THEN whole + 1 ELSE whole)

\* String(a), for the integers and the special values
NumberToString(a) ==
  IF IsNaN(a) THEN "NaN"
  ELSE IF a[2] = 0 THEN (IF a[1] > 0 THEN "Infinity" ELSE "-Infinity")
  ELSE IF a[2] = 1 THEN ToString(a[1])
  ELSE ToString(a[1]) \o "/" \o ToString(a[2])

(***************************************************************************)
(* data.js: the static tables.  The literals of data.js are the _DATA      *)
(* definitions; tables holds the globals, which every call reads.         *)
(***************************************************************************)
FilingStatuses == {"single", "married"}

STANDARD_DEDUCTIONS_DATA == [single |-> Num(14600), married |-> Num(29200)]

TAX_BRACKETS_DATA ==
  [single |->
     << [min |-> Num(0),      max |-> Num(11600),  rate |-> Frac(10, 100)],
        [min |-> Num(11600),  max |-> Num(47150),  rate |-> Frac(12, 100)],
        [min |-> Num(47150),  max |-> Num(100525), rate |-> Frac(22, 100)],
        [min |-> Num(100525), max |-> Num(191950), rate |-> Frac(24, 100)],
        [min |-> Num(191950), max |-> Num(243725), rate |-> Frac(32, 100)],
        [min |-> Num(243725), max |-> Num(609350), rate |-> Frac(35, 100)],
        [min |-> Num(609350), max |-> Infinity,    rate |-> Frac(37, 100)] >>,
   married |->
     << [min |-> Num(0),      max |-> Num(23200),  rate |-> Frac(10, 100)],
        [min |-> Num(23200),  max |-> Num(94300),  rate |-> Frac(12, 100)],
        [min |-> Num(94300),  max |-> Num(201050), rate |-> Frac(22, 100)],
        [min |-> Num(201050), max |-> Num(383900), rate |-> Frac(24, 100)],
        [min |-> Num(383900), max |-> Num(487450), rate |-> Frac(32, 100)],
        [min |-> Num(487450), max |-> Num(731200), rate |-> Frac(35, 100)],
        [min |-> Num(731200), max |-> Infinity,    rate |-> Frac(37, 100)] >>]

FICA_DATA ==
  [socialSecurity |-> [rate |-> Frac(62, 1000), wageBase |-> Num(168600)],
   medicare |->
     [rate |-> Frac(145, 10000),
      additionalRate |-> Frac(9, 1000),
      additionalThreshold |-> [single |-> Num(200000), married |-> Num(250000)]]]

\* in billions of dollars
FEDERAL_BUDGET_DATA ==
  [revenue |->
     [total |-> Num(4900), individualIncomeTax |-> Num(2400),
      payrollTax |-> Num(1700), corporateTax |-> Num(500), other |-> Num(300)],
   spending |->
     [total |-> Num(6800), socialSecurity |-> Num(1400),
      medicareMedicaid |-> Num(1700), defense |-> Num(900),
      otherDiscretionary |-> Num(900), otherMandatory |-> Num(1000),
      netInterest |-> Num(900)],
   deficit |-> Num(1900)]

FUNDING_CATEGORIES_DATA ==
  [defense |->
     [name |-> "Defense & Military", taxSource |-> "income",
      budgetPool |-> FEDERAL_BUDGET_DATA.spending.defense,
      revenuePool |-> FEDERAL_BUDGET_DATA.revenue.individualIncomeTax],
   general |->
     [name |-> "General Government", taxSource |-> "income",
      budgetPool |-> Add(FEDERAL_BUDGET_DATA.spending.otherDiscretionary,
                         FEDERAL_BUDGET_DATA.spending.otherMandatory),
      revenuePool |-> FEDERAL_BUDGET_DATA.revenue.individualIncomeTax],
   socialSecurity |->
     [name |-> "Social Security", taxSource |-> "fica",
      budgetPool |-> FEDERAL_BUDGET_DATA.spending.socialSecurity,
      revenuePool |-> FEDERAL_BUDGET_DATA.revenue.payrollTax],
   medicare |->
     [name |-> "Medicare & Medicaid", taxSource |-> "mixed",
      budgetPool |-> FEDERAL_BUDGET_DATA.spending.medicareMedicaid,
      incomeSharePercent |-> Frac(60, 100),
      ficaSharePercent |-> Frac(40, 100),
      revenuePool |->
        Add(Mul(FEDERAL_BUDGET_DATA.revenue.individualIncomeTax, Frac(6, 10)),
            Mul(FEDERAL_BUDGET_DATA.revenue.payrollTax, Frac(4, 10)))],
   interest |->
     [name |-> "Interest on Debt", taxSource |-> "income",
      budgetPool |-> FEDERAL_BUDGET_DATA.spending.netInterest,
      revenuePool |-> FEDERAL_BUDGET_DATA.revenue.individualIncomeTax]]

\* A text is a sequence of pieces; a placeholder is a piece of its own.
COMPARISONS_DATA ==
  << [max |-> Frac(1, 100), text |-> <<"Less than a penny">>],
     [max |-> Frac(10, 100), text |-> <<"About ", "{cents}", " cents">>],
     [max |-> Num(1),        text |-> <<"About ", "{cents}", " cents">>],
     [max |-> Num(5),        text |-> <<"About the cost of a coffee">>],
     [max |-> Num(15),       text |-> <<"About the cost of a fast food meal">>],
     [max |-> Num(25),       text |-> <<"About the cost of a movie ticket">>],
     [max |-> Num(75),       text |-> <<"About the cost of a tank of gas">>],
     [max |-> Num(150),      text |-> <<"About the cost of a nice dinner out">>],
     [max |-> Num(500),      text |-> <<"About the cost of a monthly utility bill">>],
     [max |-> Infinity,
      text |-> <<"About ", "{days}", " days of your annual tax contribution">>] >>

\* data.js as loaded: the globals that calculations.js reads
DATA ==
  [STANDARD_DEDUCTIONS |-> STANDARD_DEDUCTIONS_DATA,
   TAX_BRACKETS |-> TAX_BRACKETS_DATA,
   FICA |-> FICA_DATA,
   FEDERAL_BUDGET |-> FEDERAL_BUDGET_DATA,
   FUNDING_CATEGORIES |-> FUNDING_CATEGORIES_DATA,
   COMPARISONS |-> COMPARISONS_DATA]

\* the globals as a call finds them
STANDARD_DEDUCTIONS == tables.STANDARD_DEDUCTIONS

TAX_BRACKETS == tables.TAX_BRACKETS

FICA == tables.FICA

FEDERAL_BUDGET == tables.FEDERAL_BUDGET

FUNDING_CATEGORIES == tables.FUNDING_CATEGORIES

COMPARISONS == tables.COMPARISONS

Categories == DOMAIN FUNDING_CATEGORIES

(***************************************************************************)
(* Property reads and completions                                          *)
(***************************************************************************)

\* the value of a missing property and of an omitted argument
undefined == "undefined"

\* what every object literal inherits: Object.prototype's members, functions
\* whose own name property is all that is read of them here
ObjectPrototype ==
  [toString |-> [name |-> "toString"],
   valueOf |-> [name |-> "valueOf"],
   constructor |-> [name |-> "Object"]]

\* obj[key] is not undefined: an own or an inherited property
Has(obj, key) == key \in DOMAIN obj \/ key \in DOMAIN ObjectPrototype

\* obj[key], own properties first
Get(obj, key) == IF key \in DOMAIN obj THEN obj[key] ELSE ObjectPrototype[key]

\* value.key of a value that is not undefined
Prop(value, key) == IF key \in DOMAIN value THEN value[key] ELSE undefined

\* obj[key] where a number is needed: a missing key (undefined) and an
\* inherited function both convert to NaN
ToNumberAt(obj, key) == IF key \in DOMAIN obj THEN obj[key] ELSE NaN

\* a default parameter value: taken when the argument is undefined
Default(argument, value) == IF argument = undefined THEN value ELSE argument

\* how a call ends: return value
Return(value) == [outcome |-> "return", value |-> value]

\* how a call ends: an exception propagates to the caller
Throw(name, message) ==
  [outcome |-> "throw", value |-> [name |-> name, message |-> message]]

(***************************************************************************)
(* calculations.js                                                         *)
(***************************************************************************)

\* Faulty variant of BracketLoop: previousMax is never advanced.
RECURSIVE BracketLoop_StalePreviousMax(_, _, _, _, _)
BracketLoop_StalePreviousMax(brackets, i, taxableIncome, tax, previousMax) ==
  IF i > Len(brackets) THEN tax
  ELSE IF Le(taxableIncome, previousMax) THEN tax
  ELSE LET bracket == brackets[i]
           taxableInBracket == Sub(MathMin(taxableIncome, bracket.max), previousMax)
           tax2 == IF Gt(taxableInBracket, Num(0))
                   THEN Add(tax, Mul(taxableInBracket, bracket.rate))
                   ELSE tax
       IN  BracketLoop_StalePreviousMax(brackets, i + 1, taxableIncome, tax2, previousMax)

\* Faulty variant of BracketLoop: tax is assigned (=) instead of accumulated (+=).
RECURSIVE BracketLoop_Overwrite(_, _, _, _, _)
BracketLoop_Overwrite(brackets, i, taxableIncome, tax, previousMax) ==
  IF i > Len(brackets) THEN tax
  ELSE IF Le(taxableIncome, previousMax) THEN tax
  ELSE LET bracket == brackets[i]
           taxableInBracket == Sub(MathMin(taxableIncome, bracket.max), previousMax)
           tax2 == IF Gt(taxableInBracket, Num(0))
                   THEN Mul(taxableInBracket, bracket.rate)
                   ELSE tax
       IN  BracketLoop_Overwrite(brackets, i + 1, taxableIncome, tax2, bracket.max)

\* Faulty variant of BracketLoop: the loop is left as soon as taxableIncome
\* does not exceed the ceiling of the current bracket, before its amount is added.
RECURSIVE BracketLoop_EarlyBreak(_, _, _, _, _)
BracketLoop_EarlyBreak(brackets, i, taxableIncome, tax, previousMax) ==
  IF i > Len(brackets) THEN tax
  ELSE IF Le(taxableIncome, brackets[i].max) THEN tax
  ELSE LET bracket == brackets[i]
           taxableInBracket == Sub(MathMin(taxableIncome, bracket.max), previousMax)
           tax2 == IF Gt(taxableInBracket, Num(0))
                   THEN Add(tax, Mul(taxableInBracket, bracket.rate))
                   ELSE tax
       IN  BracketLoop_EarlyBreak(brackets, i + 1, taxableIncome, tax2, bracket.max)

\* The body of the bracket loop, from bracket i on; the loop's variables are
\* tax and previousMax.
RECURSIVE BracketLoop(_, _, _, _, _)
BracketLoop(brackets, i, taxableIncome, tax, previousMax) ==
  IF i > Len(brackets) THEN tax
  ELSE IF Le(taxableIncome, previousMax) THEN tax
  ELSE LET bracket == brackets[i]
           taxableInBracket == Sub(MathMin(taxableIncome, bracket.max), previousMax)
           tax2 == IF Gt(taxableInBracket, Num(0))
                   THEN Add(tax, Mul(taxableInBracket, bracket.rate))
                   ELSE tax
       IN  BracketLoop(brackets, i + 1, taxableIncome, tax2, bracket.max)

\* Faulty variant of calculateIncomeTax: the standard deduction is not subtracted.
calculateIncomeTax_NoDeduction(grossIncome, filingStatusArgument) ==
  LET filingStatus == Default(filingStatusArgument, "single")
      taxableIncome == MathMax(Num(0), grossIncome)
  IN  IF filingStatus \in DOMAIN TAX_BRACKETS
      THEN Return(BracketLoop(TAX_BRACKETS[filingStatus], 1, taxableIncome,
                              Num(0), Num(0)))
      ELSE Throw("TypeError", <<"brackets is not iterable">>)

\* for...of over brackets throws a TypeError when TAX_BRACKETS[filingStatus]
\* is undefined, and when it is an inherited function (not iterable either).
calculateIncomeTax(grossIncome, filingStatusArgument) ==
  LET filingStatus == Default(filingStatusArgument, "single")
      standardDeduction == ToNumberAt(STANDARD_DEDUCTIONS, filingStatus)
      taxableIncome == MathMax(Num(0), Sub(grossIncome, standardDeduction))
  IN  IF filingStatus \in DOMAIN TAX_BRACKETS
      THEN Return(BracketLoop(TAX_BRACKETS[filingStatus], 1, taxableIncome,
                              Num(0), Num(0)))
      ELSE Throw("TypeError", <<"brackets is not iterable">>)

\* Faulty variant of calculateFICA: the wage base does not cap Social Security.
calculateFICA_NoCap(grossIncome, filingStatusArgument) ==
  LET filingStatus == Default(filingStatusArgument, "single")
      ssWages == grossIncome
      socialSecurityTax == Mul(ssWages, FICA.socialSecurity.rate)
      baseMedicare == Mul(grossIncome, FICA.medicare.rate)
      additionalThreshold ==
        ToNumberAt(FICA.medicare.additionalThreshold, filingStatus)
      medicareTax ==
        IF Gt(grossIncome, additionalThreshold)
        THEN Add(baseMedicare,
                 Mul(Sub(grossIncome, additionalThreshold), FICA.medicare.additionalRate))
        ELSE baseMedicare
  IN  [socialSecurity |-> socialSecurityTax,
       medicare |-> medicareTax,
       total |-> Add(socialSecurityTax, medicareTax)]

\* Faulty variant of calculateFICA: the single filer's threshold is used for
\* every filing status.
calculateFICA_SingleThreshold(grossIncome, filingStatusArgument) ==
  LET filingStatus == Default(filingStatusArgument, "single")
      ssWages == MathMin(grossIncome, FICA.socialSecurity.wageBase)
      socialSecurityTax == Mul(ssWages, FICA.socialSecurity.rate)
      baseMedicare == Mul(grossIncome, FICA.medicare.rate)
      additionalThreshold == FICA.medicare.additionalThreshold["single"]
      medicareTax ==
        IF Gt(grossIncome, additionalThreshold)
        THEN Add(baseMedicare,
                 Mul(Sub(grossIncome, additionalThreshold), FICA.medicare.additionalRate))
        ELSE baseMedicare
  IN  [socialSecurity |-> socialSecurityTax,
       medicare |-> medicareTax,
       total |-> Add(socialSecurityTax, medicareTax)]

\* Faulty variant of calculateFICA: Medicare is computed on the capped wages.
calculateFICA_MedicareCapped(grossIncome, filingStatusArgument) ==
  LET filingStatus == Default(filingStatusArgument, "single")
      ssWages == MathMin(grossIncome, FICA.socialSecurity.wageBase)
      socialSecurityTax == Mul(ssWages, FICA.socialSecurity.rate)
      baseMedicare == Mul(ssWages, FICA.medicare.rate)
      additionalThreshold ==
        ToNumberAt(FICA.medicare.additionalThreshold, filingStatus)
      medicareTax ==
        IF Gt(grossIncome, additionalThreshold)
        THEN Add(baseMedicare,
                 Mul(Sub(grossIncome, additionalThreshold), FICA.medicare.additionalRate))
        ELSE baseMedicare
  IN  [socialSecurity |-> socialSecurityTax,
       medicare |-> medicareTax,
       total |-> Add(socialSecurityTax, medicareTax)]

calculateFICA(grossIncome, filingStatusArgument) ==
  LET filingStatus == Default(filingStatusArgument, "single")
      ssWages == MathMin(grossIncome, FICA.socialSecurity.wageBase)
      socialSecurityTax == Mul(ssWages, FICA.socialSecurity.rate)
      baseMedicare == Mul(grossIncome, FICA.medicare.rate)
      additionalThreshold ==
        ToNumberAt(FICA.medicare.additionalThreshold, filingStatus)
      medicareTax ==
        IF Gt(grossIncome, additionalThreshold)
        THEN Add(baseMedicare,
                 Mul(Sub(grossIncome, additionalThreshold), FICA.medicare.additionalRate))
        ELSE baseMedicare
  IN  [socialSecurity |-> socialSecurityTax,
       medicare |-> medicareTax,
       total |-> Add(socialSecurityTax, medicareTax)]

\* Faulty variant of incomeBranch: total revenue is the denominator.
incomeBranch_TotalRevenue(params, categoryData) ==
  LET proportion == Div(params.incomeTax, FEDERAL_BUDGET.revenue.total)
  IN  [yourShare |-> Mul(proportion, params.spendingAmount),
       breakdown |->
         [taxType |-> "Federal Income Tax",
          yourTax |-> params.incomeTax,
          totalRevenue |-> FEDERAL_BUDGET.revenue.total,
          proportion |-> proportion]]

\* Faulty variant of incomeBranch: the spending counted stops at the budgetPool.
incomeBranch_CappedAtBudget(params, categoryData) ==
  LET proportion == Div(params.incomeTax, categoryData.revenuePool)
  IN  [yourShare |-> Mul(proportion, MathMin(params.spendingAmount, categoryData.budgetPool)),
       breakdown |->
         [taxType |-> "Federal Income Tax",
          yourTax |-> params.incomeTax,
          totalRevenue |-> categoryData.revenuePool,
          proportion |-> proportion]]

\* Faulty variant of incomeBranch: the payroll tax is counted with the income tax.
incomeBranch_PlusFica(params, categoryData) ==
  LET proportion == Div(Add(params.incomeTax, params.ficaTax), categoryData.revenuePool)
  IN  [yourShare |-> Mul(proportion, params.spendingAmount),
       breakdown |->
         [taxType |-> "Federal Income Tax",
          yourTax |-> params.incomeTax,
          totalRevenue |-> categoryData.revenuePool,
          proportion |-> proportion]]

\* Faulty variant of ficaBranch: both taxes are counted.
ficaBranch_AllTaxes(params, categoryData) ==
  LET proportion == Div(Add(params.incomeTax, params.ficaTax), categoryData.revenuePool)
  IN  [yourShare |-> Mul(proportion, params.spendingAmount),
       breakdown |->
         [taxType |-> "Payroll Tax (FICA)",
          yourTax |-> Add(params.incomeTax, params.ficaTax),
          totalRevenue |-> categoryData.revenuePool,
          proportion |-> proportion]]

\* Faulty variant of mixedBranch: the category's blended revenuePool is the
\* denominator of both slices.
mixedBranch_BlendedPool(params, categoryData) ==
  LET incomeShare ==
        Mul(Mul(Div(params.incomeTax, categoryData.revenuePool),
                params.spendingAmount),
            categoryData.incomeSharePercent)
      ficaShare ==
        Mul(Mul(Div(params.ficaTax, categoryData.revenuePool),
                params.spendingAmount),
            categoryData.ficaSharePercent)
      yourShare == Add(incomeShare, ficaShare)
  IN  [yourShare |-> yourShare,
       breakdown |->
         [taxType |-> "Mixed (Income Tax + FICA)",
          incomeContribution |-> incomeShare,
          ficaContribution |-> ficaShare,
          yourTax |-> Add(params.incomeTax, params.ficaTax),
          proportion |-> Div(yourShare, params.spendingAmount)]]

\* the branch taxSource === 'income': yourShare and breakdown
incomeBranch(params, categoryData) ==
  LET proportion == Div(params.incomeTax, categoryData.revenuePool)
  IN  [yourShare |-> Mul(proportion, params.spendingAmount),
       breakdown |->
         [taxType |-> "Federal Income Tax",
          yourTax |-> params.incomeTax,
          totalRevenue |-> categoryData.revenuePool,
          proportion |-> proportion]]

\* the branch taxSource === 'fica'
ficaBranch(params, categoryData) ==
  LET proportion == Div(params.ficaTax, categoryData.revenuePool)
  IN  [yourShare |-> Mul(proportion, params.spendingAmount),
       breakdown |->
         [taxType |-> "Payroll Tax (FICA)",
          yourTax |-> params.ficaTax,
          totalRevenue |-> categoryData.revenuePool,
          proportion |-> proportion]]

\* the branch taxSource === 'mixed'
mixedBranch(params, categoryData) ==
  LET incomeShare ==
        Mul(Mul(Div(params.incomeTax, FEDERAL_BUDGET.revenue.individualIncomeTax),
                params.spendingAmount),
            categoryData.incomeSharePercent)
      ficaShare ==
        Mul(Mul(Div(params.ficaTax, FEDERAL_BUDGET.revenue.payrollTax),
                params.spendingAmount),
            categoryData.ficaSharePercent)
      yourShare == Add(incomeShare, ficaShare)
  IN  [yourShare |-> yourShare,
       breakdown |->
         [taxType |-> "Mixed (Income Tax + FICA)",
          incomeContribution |-> incomeShare,
          ficaContribution |-> ficaShare,
          yourTax |-> Add(params.incomeTax, params.ficaTax),
          proportion |-> Div(yourShare, params.spendingAmount)]]

\* Faulty variant of calculateShare: exceedsBudget uses >= instead of >.
calculateShare_InclusiveBudget(params) ==
  IF ~Has(FUNDING_CATEGORIES, params.category)
  THEN Throw("TypeError",
             <<"Cannot read properties of undefined (reading '", "taxSource", "')">>)
  ELSE
    LET categoryData == Get(FUNDING_CATEGORIES, params.category)
        taxSource == Prop(categoryData, "taxSource")
        branch ==
          CASE taxSource = "income" -> incomeBranch(params, categoryData)
            [] taxSource = "fica" -> ficaBranch(params, categoryData)
            [] taxSource = "mixed" -> mixedBranch(params, categoryData)
            [] OTHER -> [yourShare |-> undefined, breakdown |-> <<>>]
    IN  Return([yourShare |-> branch.yourShare,
                spendingAmount |-> params.spendingAmount,
                category |-> Prop(categoryData, "name"),
                taxSource |-> taxSource,
                budgetPool |-> Prop(categoryData, "budgetPool"),
                breakdown |-> branch.breakdown,
                exceedsBudget |-> Le(ToNumberAt(categoryData, "budgetPool"), params.spendingAmount)])

calculateShare(params) ==
  IF ~Has(FUNDING_CATEGORIES, params.category)
  THEN Throw("TypeError",
             <<"Cannot read properties of undefined (reading '", "taxSource", "')">>)
  ELSE
    LET categoryData == Get(FUNDING_CATEGORIES, params.category)
        taxSource == Prop(categoryData, "taxSource")
        branch ==
          CASE taxSource = "income" -> incomeBranch(params, categoryData)
            [] taxSource = "fica" -> ficaBranch(params, categoryData)
            [] taxSource = "mixed" -> mixedBranch(params, categoryData)
            [] OTHER -> [yourShare |-> undefined, breakdown |-> <<>>]
    IN  Return([yourShare |-> branch.yourShare,
                spendingAmount |-> params.spendingAmount,
                category |-> Prop(categoryData, "name"),
                taxSource |-> taxSource,
                budgetPool |-> Prop(categoryData, "budgetPool"),
                breakdown |-> branch.breakdown,
                exceedsBudget |-> Gt(params.spendingAmount, ToNumberAt(categoryData, "budgetPool"))])

\* text.includes(piece)
Includes(text, piece) == \E i \in 1..Len(text) : text[i] = piece

\* text.replace(piece, value): the first occurrence only
Replace(text, piece, value) ==
  IF ~Includes(text, piece) THEN text
  ELSE LET first == CHOOSE i \in 1..Len(text) :
                      text[i] = piece /\ \A j \in 1..(i - 1) : text[j] # piece
       IN  [i \in 1..Len(text) |-> IF i = first THEN NumberToString(value) ELSE text[i]]

\* Faulty variant of Substitute: the zero guard on dailyTax is missing.
Substitute_NoZeroGuard(template, share, annualTax) ==
  LET cents == MathRound(Mul(share, Num(100)))
      text1 == IF Includes(template, "{cents}")
               THEN Replace(template, "{cents}", cents)
               ELSE template
      dailyTax == Div(annualTax, Num(365))
      days == MathRound(Div(share, dailyTax))
  IN  IF Includes(text1, "{days}") THEN Replace(text1, "{days}", days) ELSE text1

\* Faulty variant of Substitute: {days} is handled inside the {cents} branch.
Substitute_NestedDays(template, share, annualTax) ==
  LET cents == MathRound(Mul(share, Num(100)))
      dailyTax == Div(annualTax, Num(365))
      days == IF Gt(dailyTax, Num(0)) THEN MathRound(Div(share, dailyTax)) ELSE Num(0)
  IN  IF Includes(template, "{cents}")
      THEN LET text1 == Replace(template, "{cents}", cents)
           IN  IF Includes(text1, "{days}") THEN Replace(text1, "{days}", days) ELSE text1
      ELSE template

\* The two substitutions in the text of the matching entry.
Substitute(template, share, annualTax) ==
  LET cents == MathRound(Mul(share, Num(100)))
      text1 == IF Includes(template, "{cents}")
               THEN Replace(template, "{cents}", cents)
               ELSE template
      dailyTax == Div(annualTax, Num(365))
      days == IF Gt(dailyTax, Num(0)) THEN MathRound(Div(share, dailyTax)) ELSE Num(0)
  IN  IF Includes(text1, "{days}") THEN Replace(text1, "{days}", days) ELSE text1

\* Faulty variant of ComparisonLoop: share <= comp.max instead of share < comp.max.
RECURSIVE ComparisonLoop_Inclusive(_, _, _)
ComparisonLoop_Inclusive(i, share, annualTax) ==
  IF i > Len(COMPARISONS) THEN <<>>
  ELSE LET comp == COMPARISONS[i]
       IN  IF Le(share, comp.max)
           THEN Substitute(comp.text, share, annualTax)
           ELSE ComparisonLoop_Inclusive(i + 1, share, annualTax)

\* The loop over COMPARISONS, from entry i on; the empty text when none matches.
RECURSIVE ComparisonLoop(_, _, _)
ComparisonLoop(i, share, annualTax) ==
  IF i > Len(COMPARISONS) THEN <<>>
  ELSE LET comp == COMPARISONS[i]
       IN  IF Lt(share, comp.max)
           THEN Substitute(comp.text, share, annualTax)
           ELSE ComparisonLoop(i + 1, share, annualTax)

getComparison(share, annualTax) == ComparisonLoop(1, share, annualTax)

(***************************************************************************)
(* Texts of input fields and of the page: sequences of characters.         *)
(* parseCurrencyInput (calculations.js) reads a number out of a typed      *)
(* text; formatNumberInput (app.js) and formatCurrency (calculations.js)   *)
(* write a number into the page.                                           *)
(***************************************************************************)
DigitChars == <<"0", "1", "2", "3", "4", "5", "6", "7", "8", "9">>

IsDigit(c) == \E d \in 1..Len(DigitChars) : DigitChars[d] = c

DigitValue(c) == (CHOOSE d \in 1..Len(DigitChars) : DigitChars[d] = c) - 1

\* the number a run of decimal digits denotes (0 for the empty run)
RECURSIVE DigitsValue(_)
DigitsValue(digits) ==
  IF Len(digits) = 0 THEN 0
  ELSE DigitsValue(SubSeq(digits, 1, Len(digits) - 1)) * 10
         + DigitValue(digits[Len(digits)])

RECURSIVE Pow10(_)
Pow10(k) == IF k = 0 THEN 1 ELSE 10 * Pow10(k - 1)

\* the position of the first "." of a text, Len + 1 when it has none
FirstDot(text) ==
  IF \E i \in 1..Len(text) : text[i] = "."
  THEN CHOOSE i \in 1..Len(text) :
         text[i] = "." /\ \A j \in 1..(i - 1) : text[j] # "."
  ELSE Len(text) + 1

\* parseFloat of a text of digits and dots: the longest prefix that is a
\* decimal literal (digits, at most one dot, digits), NaN when it has no digit
parseFloat(text) ==
  LET dot == FirstDot(text)
      whole == SubSeq(text, 1, dot - 1)
      after == SubSeq(text, dot + 1, Len(text))
      fraction == SubSeq(after, 1, FirstDot(after) - 1)
  IN  IF Len(whole) = 0 /\ Len(fraction) = 0 THEN NaN
      ELSE Add(Num(DigitsValue(whole)),
               Frac(DigitsValue(fraction), Pow10(Len(fraction))))

\* what str.replace(/[^0-9.]/g, '') keeps
IsDigitOrDot(c) == IsDigit(c) \/ c = "."

\* value || 0 of a number: NaN and 0 are falsy
OrZero(value) == IF IsNaN(value) THEN Num(0) ELSE value

parseCurrencyInput(str) == OrZero(parseFloat(SelectSeq(str, IsDigitOrDot)))

\* the decimal digits of a natural number
RECURSIVE DigitsOf(_)
DigitsOf(n) ==
  IF n < 10 THEN <<DigitChars[n + 1]>>
  ELSE DigitsOf(n \div 10) \o <<DigitChars[(n % 10) + 1]>>

\* the en-US grouping of a natural number: a comma before every three digits
RECURSIVE Grouped(_)
Grouped(n) ==
  IF n < 1000 THEN DigitsOf(n)
  ELSE Grouped(n \div 1000)
         \o <<",", DigitChars[((n % 1000) \div 100) + 1],
              DigitChars[((n % 100) \div 10) + 1], DigitChars[(n % 10) + 1]>>

\* num.toLocaleString('en-US', { maximumFractionDigits: 0 }) and the currency
\* formats below round a non-negative number to the nearest unit, halves
\* away from zero
formatNumberInput(num) ==
  IF num = Num(0) \/ IsNaN(num) THEN <<>>
  ELSE IF num[2] = 0 THEN <<"infinity sign">>
  ELSE Grouped(MathRound(num)[1])

\* formatCurrency(amount) with showCents left at its default (true), for the
\* amounts the page shows (never negative): two decimals below 100, none from
\* 100 on
formatCurrency(amount) ==
  IF IsNaN(amount) THEN <<"$", "N", "a", "N">>
  ELSE IF Lt(amount, Num(100))
  THEN LET cents == MathRound(Mul(amount, Num(100)))[1]
       IN  <<"$">> \o Grouped(cents \div 100)
             \o <<".", DigitChars[((cents % 100) \div 10) + 1],
                  DigitChars[(cents % 10) + 1]>>
  ELSE IF amount[2] = 0 THEN <<"$", "infinity sign">>
  ELSE <<"$">> \o Grouped(MathRound(amount)[1])

(***************************************************************************)
(* storage.js and app.js.  A handler is an operator on a world w: the      *)
(* record of app.state, of localStorage and of the elements of the page    *)
(* that the handlers read or that the properties below mention.  The rest  *)
(* of the page (hints, notes, toggle highlights, chip highlights, the      *)
(* source panel, the comparison text, the math breakdown) is written by    *)
(* the handlers and read by none of them.  Amounts of state are in         *)
(* dollars, spendingAmount in billions of dollars, as in calculateShare.   *)
(***************************************************************************)

\* null where a number or an object is expected
null == <<>>

\* null where a property name is read: FUNDING_CATEGORIES[null] reads the
\* key "null"
nullName == "null"

\* Number(value) of a number or null
ToNumber(value) == IF value = null THEN Num(0) ELSE value

\* a number or null as a condition: null, NaN and 0 are falsy
Truthy(value) == value # null /\ ~IsNaN(value) /\ value # Num(0)

STORAGE_KEY == "howMuchDidItCostMe"

\* new Date().toISOString(): the time of the save, one value for all saves
Now == "lastVisit time"

\* the initial value of app.state (selectedItemSource and selectedChipIndex,
\* which only feed the source panel and the chip highlight, are left out)
INITIAL_STATE ==
  [inputMode |-> "income",
   filingStatus |-> "single",
   income |-> Num(0),
   incomeTax |-> Num(0),
   ficaTax |-> Num(0),
   directTax |-> null,
   spendingAmount |-> Num(0),
   category |-> nullName,
   isMultiYear |-> FALSE,
   isSavings |-> FALSE]

\* the page as it is served, which is also what clearAndReset's "Reset UI"
\* restores: no banner, the income panel shown, empty fields, no tax
\* result, both Continue buttons disabled, stages 2 to 4 not visible
LOADED_DOCUMENT ==
  [returningBanner |-> "none",
   incomeInput |-> "block",
   directTaxInput |-> "none",
   income |-> <<>>,
   directTax |-> <<>>,
   taxResult |-> "none",
   calculatedTax |-> <<>>,
   continueToStage2 |-> [disabled |-> TRUE],
   continueToStage3 |-> [disabled |-> TRUE],
   stage2 |-> [visible |-> FALSE],
   stage3 |-> [visible |-> FALSE],
   stage4 |-> [visible |-> FALSE],
   resultShare |-> <<>>]

\* the two permanent items of EXAMPLE_AMOUNTS (the trending items that
\* follow them rotate weekly; every item names a category)
EXAMPLE_AMOUNTS ==
  <<[label |-> "James Webb Space Telescope", value |-> Num(10),
     category |-> "general", multiYear |-> TRUE],
    [label |-> "Gerald R. Ford Aircraft Carrier", value |-> Frac(133, 10),
     category |-> "defense", multiYear |-> TRUE]>>

\* the properties of the state that hold a number or null
NumberKeys == {"income", "incomeTax", "ficaTax", "directTax", "spendingAmount"}

\* JSON.stringify of a number or null: a number that is not finite becomes null
JSONNumber(value) ==
  IF value = null THEN null
  ELSE IF value[2] = 0 THEN null
  ELSE value

\* JSON.parse(JSON.stringify(object)) of an object of texts, booleans and
\* numbers
JSONRoundTrip(object) ==
  [k \in DOMAIN object |->
     IF k \in NumberKeys THEN JSONNumber(object[k]) ELSE object[k]]

loadUserData(w) ==
  IF STORAGE_KEY \in DOMAIN w.localStorage THEN w.localStorage[STORAGE_KEY] ELSE null

\* { ...existing, ...data, lastVisit: ... } stored under STORAGE_KEY
saveUserData(w, data) ==
  LET existing == IF loadUserData(w) = null THEN <<>> ELSE loadUserData(w)
      merged ==
        [k \in DOMAIN existing \cup DOMAIN data \cup {"lastVisit"} |->
           IF k = "lastVisit" THEN Now
           ELSE IF k \in DOMAIN data THEN data[k]
           ELSE existing[k]]
  IN  [w EXCEPT !.localStorage = STORAGE_KEY :> JSONRoundTrip(merged)]

\* localStorage.removeItem(STORAGE_KEY), the only key the page stores
clearUserData(w) == [w EXCEPT !.localStorage = <<>>]

\* Faulty variant of saveState: the whole state is saved.
saveState_WholeState(w) == saveUserData(w, w.state)

saveState(w) ==
  saveUserData(w, [inputMode |-> w.state.inputMode,
                   filingStatus |-> w.state.filingStatus,
                   income |-> w.state.income,
                   directTax |-> w.state.directTax])

showStage(w, stage) ==
  CASE stage = 2 -> [w EXCEPT !.document.stage2.visible = TRUE]
    [] stage = 3 -> [w EXCEPT !.document.stage3.visible = TRUE]
    [] stage = 4 -> [w EXCEPT !.document.stage4.visible = TRUE]

updateTaxDisplay(w) ==
  IF Gt(w.state.incomeTax, Num(0)) \/ Gt(ToNumber(w.state.directTax), Num(0))
  THEN [w EXCEPT !.document.taxResult = "block",
                 !.document.calculatedTax = formatCurrency(w.state.incomeTax),
                 !.document.continueToStage2.disabled = FALSE]
  ELSE [w EXCEPT !.document.taxResult = "none",
                 !.document.continueToStage2.disabled = TRUE]

recalculateTax(w) ==
  IF w.state.inputMode = "tax" THEN w
  ELSE updateTaxDisplay(
         [w EXCEPT !.state.incomeTax =
                     calculateIncomeTax(w.state.income, w.state.filingStatus).value,
                   !.state.ficaTax =
                     calculateFICA(w.state.income, w.state.filingStatus).total])

\* Faulty variant of clearAndReset: the saved record is kept.
clearAndReset_KeepsRecord(w) ==
  [w EXCEPT
     !.state = INITIAL_STATE,
     !.document = [LOADED_DOCUMENT EXCEPT
                     !.calculatedTax = w.document.calculatedTax,
                     !.resultShare = w.document.resultShare]]

\* clearUserData, the state literal, "Reset UI" (every element of the
\* document is set back to what the page is served with, except the texts
\* calculatedTax and resultShare of the hidden tax result and stage 4)
clearAndReset(w) ==
  [clearUserData(w) EXCEPT
     !.state = INITIAL_STATE,
     !.document = [LOADED_DOCUMENT EXCEPT
                     !.calculatedTax = w.document.calculatedTax,
                     !.resultShare = w.document.resultShare]]

handleDirectTaxInput(w, value) ==
  IF Gt(w.state.spendingAmount, Num(0)) THEN clearAndReset(w)
  ELSE LET num == parseCurrencyInput(value)
           estimatedIncome == Div(num, Frac(15, 100))
           fica == calculateFICA(estimatedIncome, w.state.filingStatus)
       IN  saveState(updateTaxDisplay(
             [w EXCEPT !.state.directTax = num,
                       !.state.incomeTax = num,
                       !.document.directTax = formatNumberInput(num),
                       !.state.income = estimatedIncome,
                       !.state.ficaTax = fica.total]))

handleIncomeInput(w, value) ==
  IF Gt(w.state.spendingAmount, Num(0)) THEN clearAndReset(w)
  ELSE LET num == parseCurrencyInput(value)
       IN  saveState(recalculateTax(
             [w EXCEPT !.state.income = num,
                       !.document.income = formatNumberInput(num)]))

setInputMode(w, mode) ==
  LET shown ==
        [w EXCEPT !.state.inputMode = mode,
                  !.document.incomeInput =
                     IF mode = "income" THEN "block" ELSE "none",
                  !.document.directTaxInput =
                     IF mode = "tax" THEN "block" ELSE "none"]
  IN  IF mode = "income"
      THEN recalculateTax([shown EXCEPT !.state.directTax = null])
      ELSE IF Gt(parseCurrencyInput(shown.document.directTax), Num(0))
      THEN handleDirectTaxInput(shown, shown.document.directTax)
      ELSE shown

setFilingStatus(w, status) ==
  saveState(recalculateTax([w EXCEPT !.state.filingStatus = status]))

\* saved.inputMode || 'income' and saved.filingStatus || 'single'
OrText(object, key, default) ==
  IF key \in DOMAIN object /\ object[key] # "" THEN object[key] ELSE default

loadSavedData(w, saved) ==
  LET restored ==
        [w EXCEPT !.document.returningBanner = "flex",
                  !.state.inputMode = OrText(saved, "inputMode", "income"),
                  !.state.filingStatus = OrText(saved, "filingStatus", "single"),
                  !.state.income =
                     IF Truthy(saved.income) THEN saved.income ELSE Num(0),
                  !.state.directTax =
                     IF "directTax" \in DOMAIN saved /\ Truthy(saved.directTax)
                     THEN saved.directTax ELSE null]
      updated ==
        IF restored.state.inputMode = "tax" /\ restored.state.directTax # null
        THEN LET switched == setInputMode(restored, "tax")
             IN  [switched EXCEPT
                    !.document.directTax = formatNumberInput(switched.state.directTax),
                    !.state.incomeTax = switched.state.directTax]
        ELSE recalculateTax(
               [restored EXCEPT
                  !.document.income = formatNumberInput(restored.state.income)])
  IN  showStage(updateTaxDisplay(updated), 2)

\* init, after renderSpendingChips has put the chips on the page
init(w) ==
  LET saved == loadUserData(w)
  IN  IF saved # null /\ "income" \in DOMAIN saved /\ Truthy(saved.income)
      THEN loadSavedData(w, saved)
      ELSE w

\* billions * 1_000_000_000 dollars are billions in the unit of spendingAmount
handleSpendingInput(w, value) ==
  LET billions == OrZero(parseFloat(SelectSeq(value, IsDigitOrDot)))
  IN  [w EXCEPT !.state.spendingAmount = billions,
                !.state.isMultiYear = FALSE,
                !.state.isSavings = FALSE,
                !.document.continueToStage3.disabled = Le(billions, Num(0)),
                !.state.category = nullName]

\* calculateShare throws for a category without an entry: the handler ends
\* there, before anything is written to the page
calculateAndShowResults(w) ==
  LET completion ==
        calculateShare([incomeTax |-> w.state.incomeTax,
                        ficaTax |-> w.state.ficaTax,
                        spendingAmount |-> w.state.spendingAmount,
                        category |-> w.state.category])
  IN  IF completion.outcome = "throw" THEN w
      ELSE showStage(
             [w EXCEPT !.document.resultShare =
                         formatCurrency(completion.value.yourShare)], 4)

selectCategory(w, category) ==
  calculateAndShowResults([w EXCEPT !.state.category = category])

setSpending(w, amount, category, multiYear, isSavings) ==
  LET set == [w EXCEPT !.state.spendingAmount = amount,
                       !.state.isMultiYear = multiYear,
                       !.state.isSavings = isSavings,
                       !.document.continueToStage3.disabled = FALSE]
  IN  IF category # nullName /\ Has(FUNDING_CATEGORIES, category)
      THEN selectCategory(showStage(set, 3), category)
      ELSE set

\* the onclick that renderSpendingChips gives the chip of EXAMPLE_AMOUNTS[index]
selectChip(w, index) ==
  LET item == EXAMPLE_AMOUNTS[index + 1]
  IN  setSpending(w, item.value,
                  IF "category" \in DOMAIN item THEN item.category ELSE nullName,
                  "multiYear" \in DOMAIN item /\ item.multiYear,
                  "isSavings" \in DOMAIN item /\ item.isSavings)

tryAnother(w) ==
  [w EXCEPT !.document.stage4.visible = FALSE,
            !.state.category = nullName,
            !.document.stage3.visible = FALSE,
            !.state.spendingAmount = Num(0),
            !.state.isMultiYear = FALSE,
            !.document.continueToStage3.disabled = TRUE]

(***************************************************************************)
(* The callers: any sequence of calls of the three functions.  call is the *)
(* latest call, with its arguments and its return value.                   *)
(***************************************************************************)
IncomeStep == 50000

MaxIncomeSteps == 16

\* the incomes at which a bracket, the wage base or a threshold begins
Boundaries ==
  UNION {{Add(STANDARD_DEDUCTIONS[s], TAX_BRACKETS[s][i].min) :
            i \in 1..Len(TAX_BRACKETS[s])} : s \in FilingStatuses}
  \cup {FICA.socialSecurity.wageBase}
  \cup {FICA.medicare.additionalThreshold[s] : s \in FilingStatuses}

Incomes ==
  {Num(IncomeStep * k) : k \in -1..MaxIncomeSteps}
  \cup Boundaries
  \cup {Add(b, Num(1)) : b \in Boundaries}
  \cup {Num(-10000), Num(10000), Num(50000), Num(75000), Num(500000), Frac(100001, 2)}

IncomeTaxes == {Num(0), Num(4016), Num(5000), Num(50000)}

FicaTaxes == {Num(0), Frac(11475, 2), Num(5000), Num(50000)}

SpendingAmounts == {Num(0), Frac(1, 2), Num(1), Num(10), Num(900), Num(2000)}

Shares ==
  {Num(-1), Num(0), Frac(5, 1000), Frac(1, 100), Frac(5, 100), Frac(10, 100),
   Frac(75, 100), Num(1), Frac(35, 10), Frac(499, 100), Num(5), Num(10), Num(15),
   Num(20), Num(25), Num(50), Num(75), Num(100), Num(150), Num(300),
   Frac(49999, 100), Num(500), Num(548), Num(1000), Infinity, NaN}

AnnualTaxes == {Num(-1), Num(0), Frac(19507, 2), Num(20000)}

NoCall == [fn |-> "none"]

Init ==
  /\ call = NoCall
  /\ tables = DATA
  /\ state = INITIAL_STATE
  /\ localStorage = <<>>
  /\ document = LOADED_DOCUMENT

CallIncomeTax ==
  \E grossIncome \in Incomes, filingStatus \in FilingStatuses :
    LET completion == calculateIncomeTax(grossIncome, filingStatus)
    IN  /\ call' = [fn |-> "calculateIncomeTax",
                    grossIncome |-> grossIncome,
                    filingStatus |-> filingStatus,
                    outcome |-> completion.outcome,
                    result |-> completion.value]
        /\ UNCHANGED <<tables, state, localStorage, document>>

CallFICA ==
  \E grossIncome \in Incomes, filingStatus \in FilingStatuses :
    /\ call' = [fn |-> "calculateFICA",
                grossIncome |-> grossIncome,
                filingStatus |-> filingStatus,
                outcome |-> "return",
                result |-> calculateFICA(grossIncome, filingStatus)]
    /\ UNCHANGED <<tables, state, localStorage, document>>

CallShare ==
  \E incomeTax \in IncomeTaxes, ficaTax \in FicaTaxes,
     spendingAmount \in SpendingAmounts, category \in Categories :
    LET params == [incomeTax |-> incomeTax, ficaTax |-> ficaTax,
                   spendingAmount |-> spendingAmount, category |-> category]
        completion == calculateShare(params)
    IN  /\ call' = [fn |-> "calculateShare",
                    params |-> params,
                    outcome |-> completion.outcome,
                    result |-> completion.value]
        /\ UNCHANGED <<tables, state, localStorage, document>>

\* Faulty variant of CallComparison: the substituted text is stored back in
\* the entry of COMPARISONS that matched.
CallComparison_WritesBack ==
  \E share \in Shares, annualTax \in AnnualTaxes :
    LET matching == {i \in 1..Len(COMPARISONS) : Lt(share, COMPARISONS[i].max)}
        first == CHOOSE i \in matching : \A j \in matching : i <= j
    IN  /\ call' = [fn |-> "getComparison",
                    share |-> share,
                    annualTax |-> annualTax,
                    outcome |-> "return",
                    result |-> getComparison(share, annualTax)]
        /\ tables' = IF matching = {} THEN tables
                      ELSE [tables EXCEPT !.COMPARISONS[first].text =
                                            getComparison(share, annualTax)]
        /\ UNCHANGED <<state, localStorage, document>>

CallComparison ==
  \E share \in Shares, annualTax \in AnnualTaxes :
    /\ call' = [fn |-> "getComparison",
                share |-> share,
                annualTax |-> annualTax,
                outcome |-> "return",
                result |-> getComparison(share, annualTax)]
    /\ UNCHANGED <<tables, state, localStorage, document>>

Next == CallIncomeTax \/ CallFICA \/ CallShare \/ CallComparison

Spec == Init /\ [][Next]_vars

(***************************************************************************)
(* Calls with arguments outside the keys of the tables: an omitted filing   *)
(* status, a filing status and a category that no table lists, and a        *)
(* category key that FUNDING_CATEGORIES only inherits.                      *)
(***************************************************************************)
UnlistedFilingStatuses == {undefined, "head_of_household"}

UnlistedCategories == {"education", "toString"}

CallIncomeTaxUnlisted ==
  \E grossIncome \in Incomes, filingStatus \in UnlistedFilingStatuses :
    LET completion == calculateIncomeTax(grossIncome, filingStatus)
    IN  /\ call' = [fn |-> "calculateIncomeTax",
                    grossIncome |-> grossIncome,
                    filingStatus |-> filingStatus,
                    outcome |-> completion.outcome,
                    result |-> completion.value]
        /\ UNCHANGED <<tables, state, localStorage, document>>

CallFICAUnlisted ==
  \E grossIncome \in Incomes, filingStatus \in UnlistedFilingStatuses :
    /\ call' = [fn |-> "calculateFICA",
                grossIncome |-> grossIncome,
                filingStatus |-> filingStatus,
                outcome |-> "return",
                result |-> calculateFICA(grossIncome, filingStatus)]
    /\ UNCHANGED <<tables, state, localStorage, document>>

CallShareUnlisted ==
  \E incomeTax \in IncomeTaxes, ficaTax \in FicaTaxes,
     spendingAmount \in SpendingAmounts, category \in UnlistedCategories :
    LET params == [incomeTax |-> incomeTax, ficaTax |-> ficaTax,
                   spendingAmount |-> spendingAmount, category |-> category]
        completion == calculateShare(params)
    IN  /\ call' = [fn |-> "calculateShare",
                    params |-> params,
                    outcome |-> completion.outcome,
                    result |-> completion.value]
        /\ UNCHANGED <<tables, state, localStorage, document>>

NextUnlisted == CallIncomeTaxUnlisted \/ CallFICAUnlisted \/ CallShareUnlisted

SpecUnlisted == Init /\ [][NextUnlisted]_vars

(***************************************************************************)
(* End to end: the taxes of an income, the share of a spending amount they *)
(* pay for, and its comparison, as recalculateTax and                      *)
(* calculateAndShowResults of app.js chain the four functions, next to     *)
(* direct calls of getComparison.                                          *)
(***************************************************************************)
\* the incomes of the integration tests whose shares and days stay within
\* TLC's integers in exact arithmetic
PipelineIncomes == {Num(0), Num(30000), Num(60000), Num(75000), Num(150000)}

\* Faulty variant of RunPipeline: the payroll tax is passed as the income tax.
RunPipeline_SwappedTaxes ==
  \E grossIncome \in PipelineIncomes, filingStatus \in FilingStatuses,
     spendingAmount \in SpendingAmounts, category \in Categories :
    LET incomeTax == calculateIncomeTax(grossIncome, filingStatus).value
        fica == calculateFICA(grossIncome, filingStatus)
        result == calculateShare([incomeTax |-> fica.total,
                                  ficaTax |-> incomeTax,
                                  spendingAmount |-> spendingAmount,
                                  category |-> category]).value
        annualTax == Add(incomeTax, fica.total)
        comparison == getComparison(result.yourShare, annualTax)
    IN  /\ call' = [fn |-> "pipeline",
                    grossIncome |-> grossIncome,
                    filingStatus |-> filingStatus,
                    spendingAmount |-> spendingAmount,
                    category |-> category,
                    incomeTax |-> incomeTax,
                    ficaTax |-> fica.total,
                    result |-> result,
                    comparison |-> comparison]
        /\ UNCHANGED <<tables, state, localStorage, document>>

RunPipeline ==
  \E grossIncome \in PipelineIncomes, filingStatus \in FilingStatuses,
     spendingAmount \in SpendingAmounts, category \in Categories :
    LET incomeTax == calculateIncomeTax(grossIncome, filingStatus).value
        fica == calculateFICA(grossIncome, filingStatus)
        result == calculateShare([incomeTax |-> incomeTax,
                                  ficaTax |-> fica.total,
                                  spendingAmount |-> spendingAmount,
                                  category |-> category]).value
        annualTax == Add(incomeTax, fica.total)
        comparison == getComparison(result.yourShare, annualTax)
    IN  /\ call' = [fn |-> "pipeline",
                    grossIncome |-> grossIncome,
                    filingStatus |-> filingStatus,
                    spendingAmount |-> spendingAmount,
                    category |-> category,
                    incomeTax |-> incomeTax,
                    ficaTax |-> fica.total,
                    result |-> result,
                    comparison |-> comparison]
        /\ UNCHANGED <<tables, state, localStorage, document>>

NextPipeline == RunPipeline \/ CallComparison

SpecPipeline == Init /\ [][NextPipeline]_vars

(***************************************************************************)
(* The page in use: what a visitor can do with the elements that are on    *)
(* screen.  Stage 1 (the mode and status toggles, the panel of the current *)
(* input mode, Continue) is always on screen; the elements of stages 2 to  *)
(* 4 are used only while their stage is visible, a button only while it is *)
(* enabled.  Loading the page starts from the page as served and from the  *)
(* state literal, with whatever localStorage holds, and runs init.         *)
(***************************************************************************)
World == [state |-> state, localStorage |-> localStorage, document |-> document]

Becomes(w) ==
  /\ state' = w.state
  /\ localStorage' = w.localStorage
  /\ document' = w.document

\* typed into the income field: nothing, an income below the standard
\* deduction, an income with a thousands separator
IncomeTexts ==
  {<<>>,
   <<"1", "0", "0", "0", "0">>,
   <<"8", "5", ",", "0", "0", "0">>}

\* typed into the direct-tax field: nothing, and a tax whose estimated
\* income (220,000) lies between the two additional-Medicare thresholds
DirectTaxTexts == {<<>>, <<"$", "3", "3", ",", "0", "0", "0">>}

\* typed into the spending field (billions)
SpendingTexts == {<<>>, <<"1", "0">>}

\* the chips that are clicked
ChipIndexes == {0}

\* the category buttons that are clicked: an income-funded and a mixed one
ClickedCategories == {"defense", "medicare"}

LoadPage ==
  /\ Becomes(init([state |-> INITIAL_STATE,
                   localStorage |-> localStorage,
                   document |-> LOADED_DOCUMENT]))
  /\ UNCHANGED <<call, tables>>

ClickInputMode ==
  /\ \E mode \in {"income", "tax"} : Becomes(setInputMode(World, mode))
  /\ UNCHANGED <<call, tables>>

ClickFilingStatus ==
  /\ \E status \in FilingStatuses : Becomes(setFilingStatus(World, status))
  /\ UNCHANGED <<call, tables>>

TypeIncome ==
  /\ document.incomeInput = "block"
  /\ \E value \in IncomeTexts : Becomes(handleIncomeInput(World, value))
  /\ UNCHANGED <<call, tables>>

TypeDirectTax ==
  /\ document.directTaxInput = "block"
  /\ \E value \in DirectTaxTexts : Becomes(handleDirectTaxInput(World, value))
  /\ UNCHANGED <<call, tables>>

ClickContinueToStage2 ==
  /\ ~document.continueToStage2.disabled
  /\ Becomes(showStage(World, 2))
  /\ UNCHANGED <<call, tables>>

TypeSpending ==
  /\ document.stage2.visible
  /\ \E value \in SpendingTexts : Becomes(handleSpendingInput(World, value))
  /\ UNCHANGED <<call, tables>>

ClickChip ==
  /\ document.stage2.visible
  /\ \E index \in ChipIndexes : Becomes(selectChip(World, index))
  /\ UNCHANGED <<call, tables>>

ClickContinueToStage3 ==
  /\ document.stage2.visible
  /\ ~document.continueToStage3.disabled
  /\ Becomes(showStage(World, 3))
  /\ UNCHANGED <<call, tables>>

ClickCategory ==
  /\ document.stage3.visible
  /\ \E category \in ClickedCategories : Becomes(selectCategory(World, category))
  /\ UNCHANGED <<call, tables>>

ClickTryAnother ==
  /\ document.stage4.visible
  /\ Becomes(tryAnother(World))
  /\ UNCHANGED <<call, tables>>

ClickStartOver ==
  /\ Becomes(clearAndReset(World))
  /\ UNCHANGED <<call, tables>>

NextApp ==
  \/ LoadPage
  \/ ClickInputMode
  \/ ClickFilingStatus
  \/ TypeIncome
  \/ TypeDirectTax
  \/ ClickContinueToStage2
  \/ TypeSpending
  \/ ClickChip
  \/ ClickContinueToStage3
  \/ ClickCategory
  \/ ClickTryAnother
  \/ ClickStartOver

SpecApp == Init /\ [][NextApp]_vars

(***************************************************************************)
(* Properties of calculateIncomeTax                                        *)
(***************************************************************************)
IsIncomeTaxCall(c) == c.fn = "calculateIncomeTax"

IsFICACall(c) == c.fn = "calculateFICA"

IsShareCall(c) == c.fn = "calculateShare"

\* sum over the brackets of rate * max(0, min(taxableIncome, max) - min)
RECURSIVE BracketSum(_, _, _)
BracketSum(brackets, i, taxableIncome) ==
  IF i > Len(brackets) THEN Num(0)
  ELSE Add(Mul(brackets[i].rate,
               MathMax(Num(0),
                       Sub(MathMin(taxableIncome, brackets[i].max), brackets[i].min))),
           BracketSum(brackets, i + 1, taxableIncome))

\* C1: calculateIncomeTax returns the sum over the status's brackets of
\* rate * max(0, min(taxableIncome, bracket.max) - bracket.min), where
\* taxableIncome = max(0, grossIncome - standardDeduction[filingStatus]);
\* 50,000 for a single filer yields 4,016.
C1_BracketExactness ==
  IsIncomeTaxCall(call) =>
    LET taxableIncome ==
          MathMax(Num(0), Sub(call.grossIncome, STANDARD_DEDUCTIONS[call.filingStatus]))
    IN  /\ Eq(call.result, BracketSum(TAX_BRACKETS[call.filingStatus], 1, taxableIncome))
        /\ (call.grossIncome = Num(50000) /\ call.filingStatus = "single"
              => call.result = Num(4016))

C1_Witness ==
  /\ IsIncomeTaxCall(call)
  /\ call.grossIncome = Num(50000)
  /\ call.filingStatus = "single"
  /\ call.result = Num(4016)

\* C4: for a fixed filing status calculateIncomeTax is non-decreasing in
\* grossIncome (a call with an income at least that of the call before it
\* returns at least as much), and the result is never negative.
C4_Monotone ==
  /\ [](IsIncomeTaxCall(call) => Le(Num(0), call.result))
  /\ [][(/\ IsIncomeTaxCall(call)
         /\ IsIncomeTaxCall(call')
         /\ call.filingStatus = call'.filingStatus
         /\ Le(call.grossIncome, call'.grossIncome))
        => Le(call.result, call'.result)]_vars

\* a call above the second bracket's floor: tax accrued in two brackets
C4_Witness ==
  /\ IsIncomeTaxCall(call)
  /\ call.filingStatus = "married"
  /\ Gt(call.grossIncome,
        Add(STANDARD_DEDUCTIONS.married, TAX_BRACKETS.married[2].min))
  /\ Gt(call.result, Mul(TAX_BRACKETS.married[1].max, TAX_BRACKETS.married[1].rate))

\* C5: calculateIncomeTax returns exactly 0 for every grossIncome less than
\* or equal to the status's standard deduction, zero and negative
\* grossIncome included.
C5_ZeroBelowDeduction ==
  (IsIncomeTaxCall(call) /\ Le(call.grossIncome, STANDARD_DEDUCTIONS[call.filingStatus]))
    => call.result = Num(0)

C5_Witness ==
  /\ IsIncomeTaxCall(call)
  /\ Lt(call.grossIncome, Num(0))
  /\ call.result = Num(0)

(***************************************************************************)
(* Properties of calculateFICA                                             *)
(***************************************************************************)

\* C6: socialSecurity = min(grossIncome, wageBase) * ssRate, so any two
\* calls with incomes at or above the wage base, whatever their filing
\* statuses, return the same socialSecurity.
C6_SocialSecurityCap ==
  /\ [](IsFICACall(call) =>
          Eq(call.result.socialSecurity,
             IF Lt(call.grossIncome, Num(168600))
             THEN Mul(call.grossIncome, Frac(62, 1000))
             ELSE Frac(1045320, 100)))
  /\ [][(/\ IsFICACall(call)
         /\ IsFICACall(call')
         /\ Le(FICA.socialSecurity.wageBase, call.grossIncome)
         /\ Le(FICA.socialSecurity.wageBase, call'.grossIncome))
        => Eq(call.result.socialSecurity, call'.result.socialSecurity)]_vars

C6_Witness ==
  /\ IsFICACall(call)
  /\ call.grossIncome = Num(500000)
  /\ call.result.socialSecurity = Frac(1045320, 100)

\* C7: medicare = grossIncome * rate, plus additionalRate * (grossIncome -
\* threshold) only when grossIncome is strictly above the filing status's
\* threshold (200,000 single, 250,000 married); 250,000 married gives
\* 3,625 and 250,000 single gives 4,075.
C7_MedicareThreshold ==
  IsFICACall(call) =>
    LET threshold == IF call.filingStatus = "single" THEN Num(200000) ELSE Num(250000)
        base == Mul(call.grossIncome, Frac(145, 10000))
        excess == Sub(call.grossIncome, threshold)
    IN  /\ Gt(call.grossIncome, threshold)
             => Eq(call.result.medicare, Add(base, Mul(excess, Frac(9, 1000))))
        /\ Le(call.grossIncome, threshold) => Eq(call.result.medicare, base)
        /\ call.grossIncome = Num(250000) =>
             call.result.medicare =
               (IF call.filingStatus = "married" THEN Num(3625) ELSE Num(4075))

C7_Witness ==
  /\ IsFICACall(call)
  /\ call.grossIncome = Num(250000)
  /\ call.filingStatus = "married"
  /\ call.result.medicare = Num(3625)

\* C8: total = socialSecurity + medicare, and total is strictly increasing
\* in grossIncome for a fixed filing status, also across the wage base and
\* the additional-Medicare threshold.
C8_TotalIncreasing ==
  /\ [](IsFICACall(call) =>
          Eq(call.result.total, Add(call.result.socialSecurity, call.result.medicare)))
  /\ [][(/\ IsFICACall(call)
         /\ IsFICACall(call')
         /\ call.filingStatus = call'.filingStatus
         /\ Lt(call.grossIncome, call'.grossIncome))
        => Lt(call.result.total, call'.result.total)]_vars

\* a call above the wage base, where only Medicare still grows
C8_Witness ==
  /\ IsFICACall(call)
  /\ Gt(call.grossIncome, FICA.socialSecurity.wageBase)
  /\ Lt(call.grossIncome, FICA.medicare.additionalThreshold[call.filingStatus])
  /\ Gt(call.result.total, Mul(FICA.socialSecurity.wageBase, Frac(765, 10000)))

\* C9: for every grossIncome, negative ones included, socialSecurity,
\* medicare and total are all non-negative.
C9_NonNegative ==
  IsFICACall(call) =>
    /\ Le(Num(0), call.result.socialSecurity)
    /\ Le(Num(0), call.result.medicare)
    /\ Le(Num(0), call.result.total)

(***************************************************************************)
(* Properties of calculateShare                                            *)
(***************************************************************************)

\* C2: for the mixed category (medicare), incomeContribution =
\* (incomeTax / individual income tax revenue) * spendingAmount *
\* incomeSharePercent, ficaContribution = (ficaTax / payroll tax revenue) *
\* spendingAmount * ficaSharePercent, and yourShare is their sum; the
\* category's blended revenuePool does not enter.
C2_MixedDecomposition ==
  (IsShareCall(call) /\ call.params.category = "medicare") =>
    LET p == call.params
        b == call.result.breakdown
    IN  /\ Eq(b.incomeContribution,
              Mul(Mul(Div(p.incomeTax, Num(2400)), p.spendingAmount), Frac(60, 100)))
        /\ Eq(b.ficaContribution,
              Mul(Mul(Div(p.ficaTax, Num(1700)), p.spendingAmount), Frac(40, 100)))
        /\ Eq(call.result.yourShare, Add(b.incomeContribution, b.ficaContribution))

C2_Witness ==
  /\ IsShareCall(call)
  /\ call.params.category = "medicare"
  /\ Gt(call.result.breakdown.incomeContribution, Num(0))
  /\ Gt(call.result.breakdown.ficaContribution, Num(0))

\* C3: for the income-funded categories (defense, general, interest)
\* yourShare = (incomeTax / revenuePool) * spendingAmount, for the
\* fica-funded one (socialSecurity) yourShare = (ficaTax / revenuePool) *
\* spendingAmount; breakdown.yourTax, totalRevenue and proportion are the
\* tax used, the revenuePool and their quotient.
C3_SingleSourceShare ==
  (IsShareCall(call) /\ call.params.category \in {"defense", "general", "interest", "socialSecurity"}) =>
    LET p == call.params
        b == call.result.breakdown
        tax == IF p.category = "socialSecurity" THEN p.ficaTax ELSE p.incomeTax
        pool == IF p.category = "socialSecurity" THEN Num(1700) ELSE Num(2400)
    IN  /\ Eq(call.result.yourShare, Mul(Div(tax, pool), p.spendingAmount))
        /\ Eq(b.yourTax, tax)
        /\ Eq(b.totalRevenue, pool)
        /\ Eq(b.proportion, Div(tax, pool))

C3_Witness ==
  /\ IsShareCall(call)
  /\ call.params.category = "defense"
  /\ call.params.incomeTax = Num(4016)
  /\ call.params.spendingAmount = Num(10)
  /\ call.result.yourShare = Frac(4016, 240)

\* C10: calculateShare uses only the tax stream that funds the category:
\* two calls for a fica-funded category that differ only in incomeTax
\* return the same yourShare, a larger ficaTax never gives a smaller
\* yourShare and gives a larger one when spendingAmount > 0, and two calls
\* for an income-funded category that differ only in ficaTax return the
\* same yourShare.
C10_OnlyFundingStream ==
  [][(/\ IsShareCall(call)
      /\ IsShareCall(call')
      /\ call.params.category = call'.params.category
      /\ call.params.spendingAmount = call'.params.spendingAmount)
     => LET p == call.params
            q == call'.params
            source == FUNDING_CATEGORIES[p.category].taxSource
        IN  /\ (source = "fica" /\ p.ficaTax = q.ficaTax)
                 => Eq(call.result.yourShare, call'.result.yourShare)
            /\ (source = "fica" /\ Lt(p.ficaTax, q.ficaTax))
                 => /\ Le(call.result.yourShare, call'.result.yourShare)
                    /\ Gt(p.spendingAmount, Num(0))
                         => Lt(call.result.yourShare, call'.result.yourShare)
            /\ (source = "income" /\ p.incomeTax = q.incomeTax)
                 => Eq(call.result.yourShare, call'.result.yourShare)]_vars

\* a fica-funded call with an income tax that would have changed the share
C10_Witness ==
  /\ IsShareCall(call)
  /\ call.params.category = "socialSecurity"
  /\ call.params.incomeTax = Num(50000)
  /\ call.params.ficaTax = Num(5000)
  /\ call.params.spendingAmount = Num(1)
  /\ call.result.yourShare = Frac(5000, 1700)

\* the tax source of each category
SourceOf(category) ==
  CASE category \in {"defense", "general", "interest"} -> "income"
    [] category = "socialSecurity" -> "fica"
    [] category = "medicare" -> "mixed"

\* C11: for fixed incomeTax, ficaTax and category, yourShare is linear in
\* spendingAmount in all three branches: a call with k times the
\* spendingAmount of the call before it returns k times its yourShare, in
\* particular for k = 2.
C11_LinearInSpending ==
  [][(/\ IsShareCall(call)
      /\ IsShareCall(call')
      /\ call.params.category = call'.params.category
      /\ call.params.incomeTax = call'.params.incomeTax
      /\ call.params.ficaTax = call'.params.ficaTax
      /\ call.params.spendingAmount # Num(0))
     => LET k == Div(call'.params.spendingAmount, call.params.spendingAmount)
        IN  Eq(call'.result.yourShare, Mul(k, call.result.yourShare))]_vars

\* twice the spending of 1/2: the share of the mixed category for 1
C11_Witness ==
  /\ IsShareCall(call)
  /\ call.params.category = "medicare"
  /\ call.params.incomeTax = Num(5000)
  /\ call.params.ficaTax = Num(5000)
  /\ call.params.spendingAmount = Num(1)
  /\ call.result.yourShare =
       Mul(Num(2), Add(Mul(Div(Num(5000), Num(2400)), Frac(3, 10)),
                       Mul(Div(Num(5000), Num(1700)), Frac(2, 10))))

\* C12: for fixed spendingAmount and category, yourShare is linear in the
\* relevant tax input: k times the incomeTax (income categories), k times
\* the ficaTax (fica categories), or k times both (mixed category) gives k
\* times the yourShare.
C12_LinearInTax ==
  [][(/\ IsShareCall(call)
      /\ IsShareCall(call')
      /\ call.params.category = call'.params.category
      /\ call.params.spendingAmount = call'.params.spendingAmount)
     => LET p == call.params
            q == call'.params
            source == SourceOf(p.category)
            kIncome == Div(q.incomeTax, p.incomeTax)
            kFica == Div(q.ficaTax, p.ficaTax)
        IN  /\ (source = "income" /\ p.ficaTax = q.ficaTax /\ p.incomeTax # Num(0))
                 => Eq(call'.result.yourShare, Mul(kIncome, call.result.yourShare))
            /\ (source = "fica" /\ p.incomeTax = q.incomeTax /\ p.ficaTax # Num(0))
                 => Eq(call'.result.yourShare, Mul(kFica, call.result.yourShare))
            /\ (/\ source = "mixed"
                /\ p.incomeTax # Num(0)
                /\ p.ficaTax # Num(0)
                /\ kIncome = kFica)
                 => Eq(call'.result.yourShare, Mul(kIncome, call.result.yourShare))]_vars

\* ten times the taxes of 5,000 and 5,000, in the mixed category
C12_Witness ==
  /\ IsShareCall(call)
  /\ call.params.category = "medicare"
  /\ call.params.incomeTax = Num(50000)
  /\ call.params.ficaTax = Num(50000)
  /\ call.params.spendingAmount = Num(10)
  /\ call.result.yourShare =
       Mul(Num(10), Add(Mul(Div(Num(5000), Num(2400)), Num(6)),
                        Mul(Div(Num(5000), Num(1700)), Num(4))))

\* C13: exceedsBudget is true exactly when spendingAmount is strictly greater
\* than the category's budgetPool, and the flag is advisory: yourShare is the
\* same formula value whether or not it is set.
C13_ExceedsBudgetAdvisory ==
  IsShareCall(call) =>
    LET p == call.params
        budgetPool ==
          CASE p.category \in {"defense", "interest"} -> Num(900)
            [] p.category = "general" -> Num(1900)
            [] p.category = "socialSecurity" -> Num(1400)
            [] p.category = "medicare" -> Num(1700)
        perBillion ==
          CASE SourceOf(p.category) = "income" -> Div(p.incomeTax, Num(2400))
            [] SourceOf(p.category) = "fica" -> Div(p.ficaTax, Num(1700))
            [] SourceOf(p.category) = "mixed" ->
                 Add(Mul(Div(p.incomeTax, Num(2400)), Frac(6, 10)),
                     Mul(Div(p.ficaTax, Num(1700)), Frac(4, 10)))
    IN  /\ call.result.exceedsBudget <=> Gt(p.spendingAmount, budgetPool)
        /\ Eq(call.result.yourShare, Mul(perBillion, p.spendingAmount))

C13_Witness ==
  /\ IsShareCall(call)
  /\ call.params.category = "defense"
  /\ call.params.incomeTax = Num(4016)
  /\ call.params.spendingAmount = Num(2000)
  /\ call.result.exceedsBudget
  /\ call.result.yourShare = Frac(4016 * 2000, 2400)

(***************************************************************************)
(* Properties of getComparison                                             *)
(***************************************************************************)
IsComparisonCall(c) == c.fn = "getComparison"

Placeholders == {"{cents}", "{days}"}

\* text is template with its placeholders filled in
FillsTemplate(text, template) ==
  /\ Len(text) = Len(template)
  /\ \A i \in 1..Len(template) :
       IF template[i] \in Placeholders THEN text[i] \notin Placeholders
       ELSE text[i] = template[i]

\* C16: getComparison returns the template of the first entry of COMPARISONS
\* whose max is strictly greater than share; a share equal to an entry's max
\* goes to the next entry (4.99 gives the coffee tier, 5.00 the fast-food
\* tier).
C16_FirstStrictlyGreater ==
  IsComparisonCall(call) =>
    /\ \A i \in 1..Len(COMPARISONS) :
         (/\ Lt(call.share, COMPARISONS[i].max)
          /\ \A j \in 1..(i - 1) : Le(COMPARISONS[j].max, call.share))
           => FillsTemplate(call.result, COMPARISONS[i].text)
    /\ \A i \in 1..(Len(COMPARISONS) - 1) :
         call.share = COMPARISONS[i].max
           => FillsTemplate(call.result, COMPARISONS[i + 1].text)
    /\ call.share = Frac(499, 100) => call.result = <<"About the cost of a coffee">>
    /\ call.share = Num(5) => call.result = <<"About the cost of a fast food meal">>

C16_Witness ==
  /\ IsComparisonCall(call)
  /\ call.share = Num(5)
  /\ call.result = <<"About the cost of a fast food meal">>

\* C17: in the unbounded last tier {days} becomes round(share / (annualTax /
\* 365)), and 0 when annualTax = 0 (annualTax being a tax amount, not
\* negative).
C17_Days ==
  (/\ IsComparisonCall(call)
   /\ Le(Num(500), call.share)
   /\ Lt(call.share, Infinity)
   /\ Le(Num(0), call.annualTax))
    => LET days == IF call.annualTax = Num(0) THEN Num(0)
                   ELSE MathRound(Div(Mul(call.share, Num(365)), call.annualTax))
       IN  /\ call.result =
                <<"About ", NumberToString(days), " days of your annual tax contribution">>
           /\ (call.share = Num(1000) /\ call.annualTax = Num(20000))
                => call.result[2] = "18"
           /\ (call.share = Num(548) /\ call.annualTax = Num(20000))
                => call.result[2] = "10"

C17_Witness ==
  /\ IsComparisonCall(call)
  /\ call.share = Num(1000)
  /\ call.annualTax = Num(0)
  /\ call.result = <<"About ", "0", " days of your annual tax contribution">>

\* no piece of the text is a placeholder
NoPlaceholder(text) == \A i \in 1..Len(text) : text[i] \notin Placeholders

IsPipelineCall(c) == c.fn = "pipeline"

\* C18: for every finite share (zero, negative and large ones included) and
\* every annualTax, getComparison matches some entry: the text returned is
\* not empty and no placeholder is left in it; so it is for every share that
\* calculateShare returns for the taxes of an income, which is finite.
C18_AlwaysSomeTier ==
  /\ (IsComparisonCall(call) /\ call.share[2] > 0) =>
        /\ call.result # <<>>
        /\ NoPlaceholder(call.result)
        /\ \E i \in 1..Len(COMPARISONS) :
             FillsTemplate(call.result, COMPARISONS[i].text)
  /\ IsPipelineCall(call) =>
        /\ call.result.yourShare[2] > 0
        /\ call.comparison # <<>>
        /\ NoPlaceholder(call.comparison)

\* a share of the pipeline in the last entry, with its days filled in
C18_Witness ==
  /\ IsPipelineCall(call)
  /\ Le(Num(500), call.result.yourShare)
  /\ Len(call.comparison) = 3
  /\ call.comparison[1] = "About "
  /\ call.comparison[2] \notin Placeholders
  /\ call.comparison[3] = " days of your annual tax contribution"

(***************************************************************************)
(* Properties of the four functions together                               *)
(***************************************************************************)

\* C19: the four functions are pure: whatever calls were made, the tables of
\* data.js are as loaded, and the result of the latest call is the
\* function's value for its arguments, the same as after any other
\* sequence of calls.
C19_Pure ==
  /\ tables = DATA
  /\ IsIncomeTaxCall(call) =>
        call.result = calculateIncomeTax(call.grossIncome, call.filingStatus).value
  /\ IsFICACall(call) =>
        call.result = calculateFICA(call.grossIncome, call.filingStatus)
  /\ IsShareCall(call) => call.result = calculateShare(call.params).value
  /\ IsComparisonCall(call) =>
        call.result = getComparison(call.share, call.annualTax)

\* after a call that substitutes {days}, the entry still holds its placeholder
C19_Witness ==
  /\ IsComparisonCall(call)
  /\ call.share = Num(1000)
  /\ call.annualTax = Num(20000)
  /\ call.result = <<"About ", "18", " days of your annual tax contribution">>
  /\ COMPARISONS[Len(COMPARISONS)].text =
       <<"About ", "{days}", " days of your annual tax contribution">>

\* the end-to-end example: 75,000, single, 10 billion of defense spending
IsExample(c) ==
  /\ IsPipelineCall(c)
  /\ c.grossIncome = Num(75000)
  /\ c.filingStatus = "single"
  /\ c.spendingAmount = Num(10)
  /\ c.category = "defense"

C14_UnknownCategoryError ==
  (call.fn = "calculateShare" /\ call.params.category \notin Categories) =>
    /\ call.outcome = "throw"
    /\ Includes(call.result.message, call.params.category)

\* C15: with a filingStatus that is neither 'single' nor 'married',
\* calculateIncomeTax and calculateFICA each throw or return what they
\* return for 'single'.
C15_UnknownStatusPolicy ==
  /\ (call.fn = "calculateIncomeTax" /\ call.filingStatus \notin FilingStatuses) =>
        \/ call.outcome = "throw"
        \/ call.result = calculateIncomeTax(call.grossIncome, "single").value
  /\ (call.fn = "calculateFICA" /\ call.filingStatus \notin FilingStatuses) =>
        \/ call.outcome = "throw"
        \/ call.result = calculateFICA(call.grossIncome, "single")

(***************************************************************************)
(* The early exit of the bracket loop                                      *)
(***************************************************************************)

\* the loop of calculateIncomeTax without its break: every bracket is visited,
\* and a bracket whose amount is zero or negative adds nothing
RECURSIVE FullSweep(_, _, _, _, _)
FullSweep(brackets, i, taxableIncome, tax, previousMax) ==
  IF i > Len(brackets) THEN tax
  ELSE LET bracket == brackets[i]
           taxableInBracket == Sub(MathMin(taxableIncome, bracket.max), previousMax)
       IN  FullSweep(brackets, i + 1, taxableIncome,
                     IF Gt(taxableInBracket, Num(0))
                     THEN Add(tax, Mul(taxableInBracket, bracket.rate))
                     ELSE tax,
                     bracket.max)

\* C24: the break of the bracket loop (taken once taxableIncome <= previousMax)
\* is only an optimization: for every grossIncome and filing status
\* calculateIncomeTax returns what a sweep over all the brackets returns in
\* which brackets with a non-positive amount contribute nothing.
C24_BreakIsOptimization ==
  IsIncomeTaxCall(call) =>
    /\ call.outcome = "return"
    /\ call.result =
         FullSweep(TAX_BRACKETS[call.filingStatus], 1,
                   MathMax(Num(0), Sub(call.grossIncome,
                                       STANDARD_DEDUCTIONS[call.filingStatus])),
                   Num(0), Num(0))

\* a call that leaves the loop at the break (the income ends in the second
\* bracket, five brackets are skipped) and one that never takes it
C24_Witness ==
  /\ IsIncomeTaxCall(call)
  /\ call.filingStatus = "single"
  /\ call.grossIncome = Num(50000)
  /\ call.result = Num(4016)
  /\ Le(Sub(call.grossIncome, STANDARD_DEDUCTIONS["single"]),
        TAX_BRACKETS["single"][2].max)

(***************************************************************************)
(* The proportion of the breakdown                                         *)
(***************************************************************************)

\* C29: for every known category and every spendingAmount >= 0, zero
\* included, calculateShare returns a breakdown.proportion that is a number
\* (neither missing nor NaN nor infinite) with
\* proportion * spendingAmount = yourShare.
C29_ProportionDefined ==
  (IsShareCall(call) /\ call.params.category \in Categories
     /\ Le(Num(0), call.params.spendingAmount)) =>
    /\ call.outcome = "return"
    /\ "proportion" \in DOMAIN call.result.breakdown
    /\ LET proportion == call.result.breakdown.proportion
       IN  /\ proportion[2] # 0
           /\ Eq(Mul(proportion, call.params.spendingAmount), call.result.yourShare)

(***************************************************************************)
(* Properties of the page: what is stored, Start Over, the return visit    *)
(***************************************************************************)
HasRecord == STORAGE_KEY \in DOMAIN localStorage

Record == localStorage[STORAGE_KEY]

\* the world after the page is loaded with what localStorage holds now
Revisit ==
  init([state |-> INITIAL_STATE,
        localStorage |-> localStorage,
        document |-> LOADED_DOCUMENT])

\* C21: whatever the visitor did, the record stored under the storage key
\* has only the fields inputMode, filingStatus, income, directTax and
\* lastVisit: the spending amount, the category, the computed taxes and the
\* share are never stored.
C21_OnlyInputsStored ==
  HasRecord =>
    DOMAIN Record \subseteq {"inputMode", "filingStatus", "income", "directTax", "lastVisit"}

\* a record next to a state with a spending amount, a category, computed
\* taxes and a result on screen
C21_Witness ==
  /\ HasRecord
  /\ DOMAIN Record = {"inputMode", "filingStatus", "income", "directTax", "lastVisit"}
  /\ Record.income = Num(85000)
  /\ Record.filingStatus = "married"
  /\ state.filingStatus = "married"
  /\ Gt(state.spendingAmount, Num(0))
  /\ state.category = "medicare"
  /\ Gt(state.incomeTax, Num(0))
  /\ Gt(state.ficaTax, Num(0))
  /\ document.stage4.visible

\* C22: from whatever state it is clicked, Start Over (clearAndReset) leaves
\* no record in storage, the state of the state literal (income mode,
\* single, income 0, taxes 0, directTax null, spendingAmount 0, category
\* null) and stages 2 to 4 hidden, and loading the page right after shows no
\* returning banner.
C22_StartOver ==
  LET w == clearAndReset(World)
      reloaded == init([state |-> INITIAL_STATE,
                        localStorage |-> w.localStorage,
                        document |-> LOADED_DOCUMENT])
  IN  /\ STORAGE_KEY \notin DOMAIN w.localStorage
      /\ w.state = INITIAL_STATE
      /\ ~w.document.stage2.visible
      /\ ~w.document.stage3.visible
      /\ ~w.document.stage4.visible
      /\ w.document.returningBanner = "none"
      /\ init(w).document.returningBanner = "none"
      /\ reloaded.document.returningBanner = "none"

\* a return visit in tax mode with a result on screen: a record, the
\* banner, stages 2 to 4 and a state that differs from the literal in
\* every field Start Over has to reset
C22_Witness ==
  /\ HasRecord
  /\ document.returningBanner = "flex"
  /\ document.stage2.visible /\ document.stage3.visible /\ document.stage4.visible
  /\ state.inputMode = "tax"
  /\ state.filingStatus = "married"
  /\ state.directTax = Num(33000)
  /\ state.income = Num(220000)
  /\ Gt(state.spendingAmount, Num(0))
  /\ state.category = "defense"

\* C23: on a first visit (no record) init shows no returning banner; on a
\* visit with a record whose income is greater than 0 init shows the banner,
\* restores the saved income and filing status, displays the computed tax
\* result, enables Continue of stage 1 and makes stage 2 visible.
C23_ReturnVisit ==
  /\ ~HasRecord => Revisit.document.returningBanner = "none"
  /\ (HasRecord /\ Gt(ToNumber(Record.income), Num(0))) =>
        /\ Revisit.document.returningBanner = "flex"
        /\ Revisit.state.income = Record.income
        /\ Revisit.state.filingStatus = Record.filingStatus
        /\ Revisit.document.taxResult = "block"
        /\ Revisit.document.calculatedTax = formatCurrency(Revisit.state.incomeTax)
        /\ ~Revisit.document.continueToStage2.disabled
        /\ Revisit.document.stage2.visible

(***************************************************************************)
(* Properties of the page: the state, the result and the fields agree      *)
(***************************************************************************)

\* C25: whenever stage 4 is visible, the share it shows is calculateShare
\* of the state's incomeTax, ficaTax, spendingAmount and category.
C25_ResultIsCurrent ==
  document.stage4.visible =>
    LET completion ==
          calculateShare([incomeTax |-> state.incomeTax,
                          ficaTax |-> state.ficaTax,
                          spendingAmount |-> state.spendingAmount,
                          category |-> state.category])
    IN  /\ completion.outcome = "return"
        /\ document.resultShare = formatCurrency(completion.value.yourShare)

\* C26: in every state with inputMode 'tax' and a directTax that is not
\* null, incomeTax is directTax and ficaTax is
\* calculateFICA(directTax / 0.15, filingStatus).total for the filing status
\* of the state.
C26_TaxModeTaxes ==
  (state.inputMode = "tax" /\ state.directTax # null) =>
    /\ state.incomeTax = state.directTax
    /\ state.ficaTax =
         calculateFICA(Div(state.directTax, Frac(15, 100)), state.filingStatus).total

\* C27: in every state the income panel is shown exactly when inputMode is
\* 'income' (and the direct-tax panel exactly when it is 'tax'), so a value
\* typed into the visible income field leads to taxes computed from it.
C27_PanelAgreesWithMode ==
  /\ document.incomeInput = "block" <=> state.inputMode = "income"
  /\ document.directTaxInput = "block" <=> state.inputMode = "tax"
  /\ document.incomeInput = "block" =>
        \A value \in IncomeTexts :
          state.spendingAmount = Num(0) =>
            LET w == handleIncomeInput(World, value)
            IN  /\ w.state.incomeTax =
                     calculateIncomeTax(parseCurrencyInput(value),
                                        state.filingStatus).value
                /\ w.state.ficaTax =
                     calculateFICA(parseCurrencyInput(value), state.filingStatus).total

\* C28: in every state with inputMode 'income', state.income, from which
\* the taxes are computed, is the whole-dollar amount that the income field
\* shows (0 for the empty field).
C28_IncomeIsShown ==
  state.inputMode = "income" =>
    /\ state.income = parseCurrencyInput(document.income)
    /\ state.incomeTax = calculateIncomeTax(parseCurrencyInput(document.income),
                                           state.filingStatus).value

\* C30: an edit of the income field or of the direct-tax field, with a
\* spending amount selected (spendingAmount > 0), does not apply the typed
\* value but resets the state to the state literal and removes the record;
\* with spendingAmount = 0 it updates income or directTax, recomputes the
\* taxes from it, saves the state and leaves spendingAmount and category as
\* they are.
C30_EditOfStage1 ==
  /\ document.incomeInput = "block" =>
        \A value \in IncomeTexts :
          LET w == handleIncomeInput(World, value)
              num == parseCurrencyInput(value)
          IN  IF Gt(state.spendingAmount, Num(0))
              THEN w.state = INITIAL_STATE /\ STORAGE_KEY \notin DOMAIN w.localStorage
              ELSE /\ w.state.income = num
                   /\ w.state.incomeTax =
                        calculateIncomeTax(num, state.filingStatus).value
                   /\ w.state.ficaTax = calculateFICA(num, state.filingStatus).total
                   /\ w.localStorage[STORAGE_KEY].income = num
                   /\ w.state.spendingAmount = state.spendingAmount
                   /\ w.state.category = state.category
  /\ document.directTaxInput = "block" =>
        \A value \in DirectTaxTexts :
          LET w == handleDirectTaxInput(World, value)
              num == parseCurrencyInput(value)
          IN  IF Gt(state.spendingAmount, Num(0))
              THEN w.state = INITIAL_STATE /\ STORAGE_KEY \notin DOMAIN w.localStorage
              ELSE /\ w.state.directTax = num
                   /\ w.state.incomeTax = num
                   /\ w.state.ficaTax =
                        calculateFICA(Div(num, Frac(15, 100)),
                                      state.filingStatus).total
                   /\ w.localStorage[STORAGE_KEY].directTax = num
                   /\ w.state.spendingAmount = state.spendingAmount
                   /\ w.state.category = state.category

====
